---- MODULE Spec2Model ----
(***************************************************************************)
(* The AstroSummary Ratio Planner: filter-name normalisation               *)
(* (library/filters.ts), frame aggregation (library/analysis.ts), goal     *)
(* resolution and the per-target allocation rows (pages/RatioPlanner.tsx), *)
(* with the application state they read (context/AppContext.tsx).          *)
(*                                                                         *)
(* Text is a sequence of one-character strings; the Greek alpha is the     *)
(* character "alpha" and its capital "ALPHA".  Goal weights are integers   *)
(* in tenths (1.0 is 10), exposure in seconds, row values in hundredths of *)
(* an hour (toFixed(2)); a quotient that the code holds in a double is a   *)
(* fraction [n, d] with d > 0.                                             *)
(***************************************************************************)
EXTENDS Integers, Sequences, FiniteSets, TLC

VARIABLES ratio, frames, desiredHours, filterMode, nfIn, nfOut, nfAgain, nfStep,
          backendPath, needsRescan, scanning, status, live, scanned,
          normalized, scanPc, scanEnd, filterMapText,
          logLines, samples, valFrames,
          recurse,
          response, wire, buf, sfFrames, calls, sfPc, sfReturn,
          rejectionData, isLoading, error, validationResults, progress,
          valPc, valLast, valTimers

plannerVars == <<ratio, frames, desiredHours, filterMode>>
normVars == <<nfIn, nfOut, nfAgain, nfStep>>
\* what a scan reads and writes besides frames and live: the state of
\* AppContext, the locals of scanFrames and onScan, and where onScan stands
streamVars == <<backendPath, recurse, needsRescan, scanning, status, scanned,
                normalized, scanPc, scanEnd>>
scanVars == <<backendPath, recurse, needsRescan, scanning, status, live, scanned,
              normalized, scanPc, scanEnd>>
\* the state of the AstroBin export page
exportVars == <<filterMapText>>
\* the inputs of the session log analyzer and of the validation scorer
analysisVars == <<logLines, samples, valFrames>>
\* the response body scanFrames reads and the locals of scanFrames
wireVars == <<response, wire, buf, sfFrames, calls, sfPc, sfReturn>>
\* the props and the state of the RejectionValidation page
validateVars == <<rejectionData, isLoading, error, validationResults, progress,
                  valPc, valLast, valTimers>>
vars == <<ratio, frames, desiredHours, filterMode, nfIn, nfOut, nfAgain, nfStep,
          backendPath, needsRescan, scanning, status, live, scanned,
          normalized, scanPc, scanEnd, filterMapText,
          logLines, samples, valFrames,
          recurse,
          response, wire, buf, sfFrames, calls, sfPc, sfReturn,
          rejectionData, isLoading, error, validationResults, progress,
          valPc, valLast, valTimers>>

(***************************************************************************)
(* Bounds of the model.                                                    *)
(***************************************************************************)
MaxLen == 3
MaxFrames == 2
MaxLines == 3
MaxSamples == 4
MaxScored == 3

(***************************************************************************)
(* Text helpers: String.prototype.trim, toLowerCase, replace, includes.    *)
(***************************************************************************)
Whitespace == {" ", "\t"}

UpperLetters ==
  <<"A","B","C","D","E","F","G","H","I","J","K","L","M",
    "N","O","P","Q","R","S","T","U","V","W","X","Y","Z","ALPHA">>

LowerLetters ==
  <<"a","b","c","d","e","f","g","h","i","j","k","l","m",
    "n","o","p","q","r","s","t","u","v","w","x","y","z","alpha">>

Digits == {"0","1","2","3","4","5","6","7","8","9"}

AsciiLower == {LowerLetters[i] : i \in 1..26}

UpperSet == {UpperLetters[i] : i \in 1..27}

LowerMap ==
  ("A" :> "a") @@ ("B" :> "b") @@ ("C" :> "c") @@ ("D" :> "d") @@ ("E" :> "e") @@
  ("F" :> "f") @@ ("G" :> "g") @@ ("H" :> "h") @@ ("I" :> "i") @@ ("J" :> "j") @@
  ("K" :> "k") @@ ("L" :> "l") @@ ("M" :> "m") @@ ("N" :> "n") @@ ("O" :> "o") @@
  ("P" :> "p") @@ ("Q" :> "q") @@ ("R" :> "r") @@ ("S" :> "s") @@ ("T" :> "t") @@
  ("U" :> "u") @@ ("V" :> "v") @@ ("W" :> "w") @@ ("X" :> "x") @@ ("Y" :> "y") @@
  ("Z" :> "z") @@ ("ALPHA" :> "alpha")

LowerChar(c) == IF c \in UpperSet THEN LowerMap[c] ELSE c

ToLowerCase(s) == [i \in 1..Len(s) |-> LowerChar(s[i])]

RECURSIVE TrimStart(_)
TrimStart(s) ==
  IF s # <<>> /\ Head(s) \in Whitespace THEN TrimStart(Tail(s)) ELSE s

RECURSIVE TrimEnd(_)
TrimEnd(s) ==
  IF s # <<>> /\ s[Len(s)] \in Whitespace
    THEN TrimEnd(SubSeq(s, 1, Len(s) - 1))
    ELSE s

Trim(s) == TrimEnd(TrimStart(s))

\* lower.replace(/α/g, 'a')
ReplaceAlpha(s) == [i \in 1..Len(s) |-> IF s[i] = "alpha" THEN "a" ELSE s[i]]

\* alphaNormalized.replace(/[^a-z0-9]/g, '')
CompactToken(s) == SelectSeq(s, LAMBDA c : c \in AsciiLower \cup Digits)

Includes(s, sub) ==
  /\ Len(sub) <= Len(s)
  /\ \E i \in 1..(Len(s) - Len(sub) + 1) : SubSeq(s, i, i + Len(sub) - 1) = sub

\* /^h\s*a$/.test(lower)
MatchesHSpaceA(s) ==
  /\ Len(s) >= 2
  /\ s[1] = "h"
  /\ s[Len(s)] = "a"
  /\ \A i \in 2..(Len(s) - 1) : s[i] \in Whitespace

(***************************************************************************)
(* The canonical filter names and the words the rules look for.            *)
(***************************************************************************)
Ha == <<"H","a">>
OIII == <<"O","I","I","I">>
SII == <<"S","I","I">>
L == <<"L">>
R == <<"R">>
G == <<"G">>
B == <<"B">>
Unknown == <<"U","n","k","n","o","w","n">>

Canonical == {Ha, OIII, SII, L, R, G, B}

W_ha == <<"h","a">>
W_halpha == <<"h","a","l","p","h","a">>
W_hydrogen == <<"h","y","d","r","o","g","e","n">>
W_oiii == <<"o","i","i","i">>
W_o3 == <<"o","3">>
W_oxygen == <<"o","x","y","g","e","n">>
W_sii == <<"s","i","i">>
W_s2 == <<"s","2">>
W_sulfur == <<"s","u","l","f","u","r">>
W_lum == <<"l","u","m">>
W_luminance == <<"l","u","m","i","n","a","n","c","e">>
W_red == <<"r","e","d">>
W_green == <<"g","r","e","e","n">>
W_blue == <<"b","l","u","e">>

(***************************************************************************)
(* normalizeFilter (library/filters.ts).                                   *)
(***************************************************************************)
MatchRules(raw) ==
  LET lower == ToLowerCase(raw)
      token == CompactToken(ReplaceAlpha(lower))
  IN  IF \/ token = W_ha
         \/ token = W_halpha
         \/ Includes(lower, W_hydrogen)
         \/ MatchesHSpaceA(lower) THEN Ha
      ELSE IF \/ Includes(token, W_oiii)
              \/ Includes(token, W_o3)
              \/ Includes(lower, W_oxygen) THEN OIII
      ELSE IF \/ Includes(token, W_sii)
              \/ Includes(token, W_s2)
              \/ Includes(lower, W_sulfur) THEN SII
      ELSE IF \/ token = <<"l">>
              \/ token = W_lum
              \/ token = W_luminance
              \/ Includes(lower, W_luminance) THEN L
      ELSE IF token = <<"r">> \/ Includes(lower, W_red) THEN R
      ELSE IF token = <<"g">> \/ Includes(lower, W_green) THEN G
      ELSE IF token = <<"b">> \/ Includes(lower, W_blue) THEN B
      ELSE raw

\* The same function without its second guard (if (!raw) return 'Unknown').
normalizeFilterNoBlankGuard(name) ==
  IF name = <<>> THEN Unknown ELSE MatchRules(Trim(name))

normalizeFilter(name) ==
  IF name = <<>> THEN Unknown
  ELSE IF Trim(name) = <<>> THEN Unknown
  ELSE MatchRules(Trim(name))

(***************************************************************************)
(* The filter names handed to normalizeFilter: every text of at most       *)
(* MaxLen characters over NormAlphabet, and the longer names of NormNames. *)
(***************************************************************************)
NormAlphabet == {"H", "a", "alpha", "o", "O", "3", "I", "s", "2", "L", "r", " ", "-"}

NormNames ==
  { Ha, OIII, SII, L, R, G, B, Unknown,
    <<"H","-","a","l","p","h","a">>,
    <<"H","y","d","r","o","g","e","n"," ","a","l","p","h","a">>,
    <<"O","-","I","I","I">>,
    <<"O","x","y","g","e","n"," ","I","I","I">>,
    <<"S","u","l","f","u","r">>,
    <<" ","L","u","m"," ">>,
    <<"L","u","m","i","n","a","n","c","e">>,
    <<"R","e","d">>, <<"G","r","e","e","n">>, <<"B","l","u","e">>,
    <<"I","R"," ","c","u","t">>,
    <<" "," ","\t"," "," ">>,
    <<" ","C","l","e","a","r"," ">> }

TextsUpTo(n) == UNION {[1..k -> NormAlphabet] : k \in 0..n}

NormInputs == TextsUpTo(MaxLen) \cup NormNames

(***************************************************************************)
(* Arithmetic on the quotients the code holds in doubles.                  *)
(***************************************************************************)
RECURSIVE SumOver(_, _)
SumOver(S, f) ==
  IF S = {} THEN 0
  ELSE LET x == CHOOSE y \in S : TRUE IN f[x] + SumOver(S \ {x}, f)

Abs(x) == IF x < 0 THEN -x ELSE x

Max0(x) == IF x > 0 THEN x ELSE 0

\* Math.round(x): the integer nearest n / d (d > 0), a tie going up.
MathRound(n, d) == (2 * n + d) \div (2 * d)

\* Number((n / d).toFixed(0)): the integer nearest n / d (d > 0), a tie going
\* away from zero.
ToFixed(n, d) ==
  IF n >= 0 THEN (2 * n + d) \div (2 * d) ELSE -((2 * (-n) + d) \div (2 * d))

(***************************************************************************)
(* Frames (library/types.ts LightFrame).  A field the message lacks is the *)
(* empty text.                                                             *)
(***************************************************************************)
FrameTypes == {"LIGHT", "DARK", "FLAT", "BIAS", "OTHER"}

Frame(t, f, e, ty) ==
  [target |-> t, filter |-> f, exposure_s |-> e, frameType |-> ty, rejected |-> FALSE]

(***************************************************************************)
(* library/analysis.ts                                                     *)
(***************************************************************************)
filterAcceptedFrames(fs, applyRejectionFilter) ==
  IF ~applyRejectionFilter THEN fs ELSE SelectSeq(fs, LAMBDA f : ~f.rejected)

TargetOf(f) == IF f.target = "" THEN "Unknown" ELSE f.target

FilterOf(f) == IF f.filter = <<>> THEN Unknown ELSE f.filter

totalsByTarget(fs, applyRejectionFilter) ==
  LET ff == filterAcceptedFrames(fs, applyRejectionFilter)
      idx(t, k) == {i \in 1..Len(ff) : TargetOf(ff[i]) = t /\ FilterOf(ff[i]) = k}
  IN  [t \in {TargetOf(ff[i]) : i \in 1..Len(ff)} |->
        [k \in {FilterOf(ff[i]) : i \in {j \in 1..Len(ff) : TargetOf(ff[j]) = t}} |->
          SumOver(idx(t, k), [i \in 1..Len(ff) |-> ff[i].exposure_s])]]

computeEqualGoal(fs) == [k \in Canonical |-> 10]

(***************************************************************************)
(* RatioPlanner: the goal (useMemo, lines 85-98).                          *)
(***************************************************************************)
\* out[k] = ratio || 1.0
OrOne(w) == IF w = 0 THEN 10 ELSE w

\* The goal with the supplied weights as they are.
GoalAsIs(fs, ratios) ==
  IF Len(fs) = 0 THEN computeEqualGoal(fs) ELSE [k \in Canonical |-> ratios[k]]

Goal(fs, ratios) ==
  IF Len(fs) = 0 THEN computeEqualGoal(fs)
  ELSE [k \in Canonical |-> OrOne(ratios[k])]

(***************************************************************************)
(* RatioPlanner: what the render computes for one target (lines 200-252).  *)
(***************************************************************************)
narrow == {Ha, OIII, SII}
broad == {R, G, B, L}

At(m, k) == IF k \in DOMAIN m THEN m[k] ELSE 0

\* normGoal[k] = (normGoal[k] || 0) + (w || 0), k = normalizeFilter(raw)
NormGoal(goal) ==
  LET keyOf == {<<raw, normalizeFilter(raw)>> : raw \in DOMAIN goal}
  IN  [k \in {p[2] : p \in keyOf} |->
        SumOver({p[1] : p \in {q \in keyOf : q[2] = k}}, goal)]

\* totalSeconds with any desiredHours that is present taken as it is.
TotalSecondsAnyNumber(current, dH) ==
  IF dH # <<>> THEN dH[1] * 3600 ELSE SumOver(DOMAIN current, current)

\* (desiredHours && desiredHours > 0) ? desiredHours * 3600 : sum of current;
\* desiredHours?: number is <<>> when undefined and <<n>> when the number n
TotalSecondsOf(current, dH) ==
  IF dH # <<>> /\ dH[1] > 0 THEN dH[1] * 3600
  ELSE SumOver(DOMAIN current, current)

TotalSeconds(current, dH) == TotalSecondsOf(current, <<dH>>)

UnionKeys(current, goal) == DOMAIN current \cup DOMAIN goal

\* the band test with every key let through.
InBandAny(k, mode) == TRUE

InBand(k, mode) ==
  \/ k \in narrow /\ mode = "narrowband"
  \/ k \in broad /\ mode = "broadband"

\* displayedKeys without the band filter.
DisplayedKeysAllBands(current, goal, mode) == UnionKeys(current, goal)

DisplayedKeys(current, goal, mode) ==
  {k \in UnionKeys(current, goal) : InBand(k, mode)}

\* sumW summed over every key of the goal instead of the displayed ones.
SumWAllKeys(displayedKeys, normGoal) == SumOver(DOMAIN normGoal, normGoal)

SumW(displayedKeys, normGoal) ==
  SumOver(displayedKeys, [k \in displayedKeys |-> At(normGoal, k)])

\* targetSec without the equal split when sumW is not positive.
TargetSecNoEqualSplit(weight, sumW, nDisplayed, totalSeconds) ==
  IF sumW > 0 THEN [n |-> weight * totalSeconds, d |-> sumW]
  ELSE [n |-> 0, d |-> 1]

\* targetSec, a fraction of seconds.
TargetSec(weight, sumW, nDisplayed, totalSeconds) ==
  IF sumW > 0 THEN [n |-> weight * totalSeconds, d |-> sumW]
  ELSE IF nDisplayed > 0 THEN [n |-> totalSeconds, d |-> nDisplayed]
  ELSE [n |-> 0, d |-> 1]

\* needed with the Math.max(0, ...) left out.
NeededNoClamp(c, t) == ToFixed(t.n - c * t.d, 36 * t.d)

\* Number(Math.max(0, targetH - capturedH).toFixed(2)), in hundredths of an hour
Needed(c, t) == ToFixed(Max0(t.n - c * t.d), 36 * t.d)

\* overshoot computed from the operands of needed.
OvershootSwapped(c, t) == ToFixed(Max0(t.n - c * t.d), 36 * t.d)

\* Number(Math.max(0, capturedH - targetH).toFixed(2))
Overshoot(c, t) == ToFixed(Max0(c * t.d - t.n), 36 * t.d)

\* one element of displayedKeys.map(...): c the captured seconds, t targetSec
Row(filter, c, t) ==
  LET captured == ToFixed(c, 36)
  IN  [filter |-> filter,
       captured |-> captured,
       capturedVis |-> IF captured * 36 * t.d <= t.n THEN captured
                       ELSE ToFixed(t.n, 36 * t.d),
       needed |-> Needed(c, t),
       overshoot |-> Overshoot(c, t),
       target |-> ToFixed(t.n, 36 * t.d)]

\* the suppression test with every row kept.
ShownAlways(r) == TRUE

\* .filter(r => r.captured > 0 || r.needed > 0 || r.overshoot > 0), the test
\* of the first filter on the mapped rows
Shown(r) == r.captured > 0 \/ r.needed > 0 \/ r.overshoot > 0

\* The body of targets.map(target => ...): every const of it, and the rows.
Alloc(current, goal, dH, mode) ==
  LET normGoal == NormGoal(goal)
      totalSeconds == TotalSeconds(current, dH)
      displayedKeys == DisplayedKeys(current, goal, mode)
      sumW == SumW(displayedKeys, normGoal)
      nDisplayed == Cardinality(displayedKeys)
      targetSec == {<<k, TargetSec(At(normGoal, k), sumW, nDisplayed, totalSeconds)>> :
                      k \in displayedKeys}
      mapped == {<<p[1], Row(p[1], At(current, p[1]), p[2])>> : p \in targetSec}
  IN  [totalSeconds |-> totalSeconds,
       displayedKeys |-> displayedKeys,
       sumW |-> sumW,
       targetSec |-> targetSec,
       rows |-> {p[2] : p \in
                  {q \in mapped :
                     /\ Shown(q[2])
                     /\ InBand(q[1], mode)}}]

(***************************************************************************)
(* What the component renders from the state: the goal, the totals and,    *)
(* per target, the allocation.                                             *)
(***************************************************************************)
Render ==
  LET goal == Goal(frames, ratio)
      totals == totalsByTarget(frames, FALSE)
  IN  {<<t, totals[t], Alloc(totals[t], goal, desiredHours, filterMode)>> :
         t \in DOMAIN totals}

\* targetSec of filter k in the allocation a
TargetSecIn(a, k) == (CHOOSE p \in a.targetSec : p[1] = k)[2]

(***************************************************************************)
(* The filter map of the AstroBin export (library/presets.ts) and the      *)
(* grouping of the export page (pages/TargetFilterReport.tsx 255-280).     *)
(* A date is the number of its day: the code orders ISO date strings with  *)
(* localeCompare, which is the order of the days.  The key                 *)
(* `${date}__${filter}__${duration}` of a row is the triple of its parts.  *)
(***************************************************************************)
\* String.prototype.split(c)
RECURSIVE SplitOn(_, _)
SplitOn(s, c) ==
  IF \A i \in 1..Len(s) : s[i] # c THEN <<s>>
  ELSE LET i == CHOOSE i \in 1..Len(s) : s[i] = c /\ \A j \in 1..(i - 1) : s[j] # c
       IN  <<SubSeq(s, 1, i - 1)>> \o SplitOn(SubSeq(s, i + 1, Len(s)), c)

\* Array.prototype.join('\n')
RECURSIVE JoinLines(_)
JoinLines(ls) ==
  IF ls = <<>> THEN <<>>
  ELSE IF Len(ls) = 1 THEN ls[1]
  ELSE ls[1] \o <<"\n">> \o JoinLines(Tail(ls))

EmptyMap == [k \in {} |-> <<>>]

\* the for loop of parseFilterMap over the lines of the text
RECURSIVE parseLines(_, _)
parseLines(lines, out) ==
  IF lines = <<>> THEN out
  ELSE LET t == Trim(Head(lines))
           parts == SplitOn(t, "=")
       IN  parseLines(Tail(lines),
             IF t = <<>> \/ Len(parts) # 2 THEN out
             ELSE (ToLowerCase(Trim(parts[1])) :> Trim(parts[2])) @@ out)

parseFilterMap(text) ==
  IF text = <<>> THEN EmptyMap ELSE parseLines(SplitOn(text, "\n"), EmptyMap)

DEFAULT_FILTER_MAP_TEXT ==
  JoinLines(<<<<"R","=","3","0","0","7">>,
              <<"H","a","=","4","6","5","7">>,
              <<"O","I","I","I","=","4","7","4","6">>,
              <<"S","I","I","=","4","8","3","8">>,
              <<"L","=","3","0","1","2">>,
              <<"G","=","3","0","1","1">>,
              <<"B","=","3","0","0","8">>>>)

\* the lookup with the frame's filter as it is (TargetFilterReport.tsx 142).
FilterIdCaseSensitive(fmap, filter) ==
  IF filter \in DOMAIN fmap THEN fmap[filter] ELSE <<>>

\* fmap[fr.filter?.toLowerCase?.() ?? fr.filter] ?? ''
FilterId(fmap, filter) ==
  IF ToLowerCase(filter) \in DOMAIN fmap THEN fmap[ToLowerCase(filter)] ELSE <<>>

\* the key of a row without its duration.
RowKeyNoDuration(row) == <<row.date, row.filter>>

\* `${row.date}__${row.filter}__${row.duration}`
RowKey(row) == <<row.date, row.filter, row.duration>>

\* the body of the loop over frames: out maps a target to its rows in the
\* order their keys were first seen
AddToGroups(out, fr, fmap) ==
  IF fr.frameType # "LIGHT" \/ fr.exposure_s = 0 THEN out
  ELSE LET row == [date |-> fr.date, filter |-> FilterId(fmap, fr.filter),
                   number |-> 1, duration |-> fr.exposure_s]
           target == IF fr.target = "" THEN "Unknown" ELSE fr.target
           cur == IF target \in DOMAIN out THEN out[target] ELSE <<>>
           hit == {i \in 1..Len(cur) : RowKey(cur[i]) = RowKey(row)}
       IN  (target :> (IF hit = {} THEN Append(cur, row)
                       ELSE LET i == CHOOSE i \in hit : TRUE
                            IN  [cur EXCEPT ![i].number = @ + 1])) @@ out

RECURSIVE GroupFrames(_, _, _)
GroupFrames(fs, fmap, out) ==
  IF fs = <<>> THEN out
  ELSE GroupFrames(Tail(fs), fmap, AddToGroups(out, Head(fs), fmap))

\* Array.prototype.sort((a, b) => a.date.localeCompare(b.date)), stable
RECURSIVE SortByDate(_)
SortByDate(rows) ==
  IF rows = <<>> THEN <<>>
  ELSE LET sorted == SortByDate(SubSeq(rows, 1, Len(rows) - 1))
           r == rows[Len(rows)]
           n == Cardinality({i \in 1..Len(sorted) : sorted[i].date <= r.date})
       IN  SubSeq(sorted, 1, n) \o <<r>> \o SubSeq(sorted, n + 1, Len(sorted))

groupedByTarget(fs, text) ==
  LET out == GroupFrames(fs, parseFilterMap(text), [t \in {} |-> <<>>])
  IN  [t \in DOMAIN out |-> SortByDate(out[t])]

\* a frame with its date
DatedFrame(t, f, e, ty, d) == [date |-> d] @@ Frame(t, f, e, ty)

\* useState(DEFAULT_FILTER_MAP_TEXT)
ExportIdle == filterMapText = DEFAULT_FILTER_MAP_TEXT

\* nothing has been handed to the log analyzer or to the validation scorer
AnalysisIdle ==
  /\ logLines = <<>>
  /\ samples = <<>>
  /\ valFrames = <<>>

\* no scanFrames call is under way
WireIdle ==
  /\ response = <<>>
  /\ wire = <<>>
  /\ buf = <<>>
  /\ sfFrames = <<>>
  /\ calls = <<>>
  /\ sfPc = "idle"
  /\ sfReturn = [frames |-> <<>>, info |-> ""]

\* the RejectionValidation page as it mounts, without rejection data
ValidateIdle ==
  /\ rejectionData = "null"
  /\ isLoading = FALSE
  /\ error = "null"
  /\ validationResults = "null"
  /\ progress = "null"
  /\ valPc = "idle"
  /\ valLast = "none"
  /\ valTimers = 0

(***************************************************************************)
(* Application state after construction (AppContext.tsx 43-59,             *)
(* RatioPlanner.tsx 11-37), read from localStorage.  A stored ratio is in  *)
(* hundredths; a key without an entry is not in the profile's domain.      *)
(***************************************************************************)
\* isNaN(v) ? 1.0 : Math.round(v*10)/10
StoredRatio(profile, k) ==
  IF k \in DOMAIN profile THEN MathRound(profile[k], 10) ELSE 10

StoredKeySets == {{}, {Ha}, {R}, Canonical}
StoredValues == {0, 4, -200, 250}
StoredProfiles == {[k \in S |-> v] : S \in StoredKeySets, v \in StoredValues}

StoredModes == {"narrowband", "broadband", "custom"}
StoredDesired == {20, 0, 3}

DefaultRatio == [k \in Canonical |-> 10]

NormInit ==
  /\ nfIn \in NormInputs
  /\ nfOut = <<>>
  /\ nfAgain = <<>>
  /\ nfStep = 0

NormIdle ==
  /\ nfIn = <<>>
  /\ nfOut = <<>>
  /\ nfAgain = <<>>
  /\ nfStep = 0

\* no scan has been started (AppContext.tsx 38-47)
ScanIdle ==
  /\ backendPath = <<"/">>
  /\ recurse = TRUE
  /\ needsRescan = FALSE
  /\ scanning = FALSE
  /\ status = ""
  /\ live = <<>>
  /\ scanned = <<>>
  /\ normalized = <<>>
  /\ scanPc = "idle"
  /\ scanEnd = "none"

PlannerIdle ==
  /\ ratio = DefaultRatio
  /\ frames = <<>>
  /\ desiredHours = 20
  /\ filterMode = "narrowband"

\* normalizeFilter(x)
NormalizeOnce ==
  /\ nfStep = 0
  /\ nfOut' = normalizeFilter(nfIn)
  /\ nfStep' = 1
  /\ UNCHANGED <<nfIn, nfAgain>>
  /\ UNCHANGED plannerVars
  /\ UNCHANGED scanVars
  /\ UNCHANGED exportVars
  /\ UNCHANGED analysisVars /\ UNCHANGED <<wireVars, validateVars>>

\* normalizeFilter(normalizeFilter(x))
NormalizeAgain ==
  /\ nfStep = 1
  /\ nfAgain' = normalizeFilter(nfOut)
  /\ nfStep' = 2
  /\ UNCHANGED <<nfIn, nfOut>>
  /\ UNCHANGED plannerVars
  /\ UNCHANGED scanVars
  /\ UNCHANGED exportVars
  /\ UNCHANGED analysisVars /\ UNCHANGED <<wireVars, validateVars>>

InitNormalize == NormInit /\ PlannerIdle /\ ScanIdle /\ ExportIdle /\ AnalysisIdle /\ WireIdle /\ ValidateIdle

NextNormalize == NormalizeOnce \/ NormalizeAgain

SpecNormalize == InitNormalize /\ [][NextNormalize]_vars

(***************************************************************************)
(* The planner's operations.                                               *)
(***************************************************************************)
\* nf with the filter left as the stream sent it.
LiveFrameRawFilter(f) ==
  [f EXCEPT !.frameType = IF f.frameType = "" THEN "LIGHT" ELSE f.frameType]

\* nf of the onFrame callback (AppContext.tsx 104-109)
LiveFrame(f) ==
  [f EXCEPT !.filter = normalizeFilter(f.filter),
            !.frameType = IF f.frameType = "" THEN "LIGHT" ELSE f.frameType]

\* one element of (final || []).map(...) (AppContext.tsx 115-120)
FinalFrame(f) ==
  [f EXCEPT !.filter = normalizeFilter(f.filter),
            !.frameType = IF f.frameType = "" THEN "LIGHT" ELSE f.frameType]

\* onScan's onFrame callback (AppContext.tsx 102-112): live.push(nf) and
\* setFrames(prev => [...prev, nf]); the caller says what else changes
onFrame(f) ==
  /\ Len(frames) < MaxFrames
  /\ frames' = Append(frames, LiveFrame(f))
  /\ live' = Append(live, LiveFrame(f))
  /\ UNCHANGED <<ratio, desiredHours, filterMode>>
  /\ UNCHANGED normVars

\* a frame arrives; the position of the scan is not followed
FrameArrives(f) ==
  onFrame(f) /\ UNCHANGED streamVars /\ UNCHANGED exportVars /\ UNCHANGED analysisVars /\ UNCHANGED <<wireVars, validateVars>>

\* the ratio inputs' onChange (RatioPlanner.tsx 129-162); text in hundredths,
\* the empty input is read as '1'
setRatio(k, text) ==
  /\ LET v == IF text = <<>> THEN 100 ELSE text[1]
         clamped == IF v < 100 THEN 100 ELSE IF v > 990 THEN 990 ELSE v
     IN  ratio' = [ratio EXCEPT ![k] = MathRound(clamped, 10)]
  /\ UNCHANGED <<frames, desiredHours, filterMode>>
  /\ UNCHANGED normVars
  /\ UNCHANGED scanVars
  /\ UNCHANGED exportVars
  /\ UNCHANGED analysisVars /\ UNCHANGED <<wireVars, validateVars>>

\* the desired-hours input's onChange (RatioPlanner.tsx 117)
setDesiredHours(text) ==
  /\ desiredHours' = IF text = <<>> THEN 20 ELSE text[1]
  /\ UNCHANGED <<ratio, frames, filterMode>>
  /\ UNCHANGED normVars
  /\ UNCHANGED scanVars
  /\ UNCHANGED exportVars
  /\ UNCHANGED analysisVars /\ UNCHANGED <<wireVars, validateVars>>

\* the band radio buttons (RatioPlanner.tsx 123, 144)
setFilterMode(m) ==
  /\ filterMode' = m
  /\ UNCHANGED <<ratio, frames, desiredHours>>
  /\ UNCHANGED normVars
  /\ UNCHANGED scanVars
  /\ UNCHANGED exportVars
  /\ UNCHANGED analysisVars /\ UNCHANGED <<wireVars, validateVars>>

FrameInputs ==
  { Frame("M101", <<"H","a">>, 3600, "LIGHT"),
    Frame("M101", <<"h","a">>, 20, "LIGHT"),
    Frame("M101", <<"O","3">>, 3600, "LIGHT"),
    Frame("M101", <<"R","e","d">>, 3600, ""),
    Frame("", <<"C","L","S">>, 600, "LIGHT") }

DesiredTexts == {<<>>, <<-1>>, <<3>>}

Init ==
  /\ \E p \in StoredProfiles : ratio = [k \in Canonical |-> StoredRatio(p, k)]
  /\ frames = <<>>
  /\ desiredHours \in StoredDesired
  /\ filterMode \in StoredModes
  /\ NormIdle
  /\ ScanIdle
  /\ ExportIdle /\ AnalysisIdle /\ WireIdle /\ ValidateIdle

Next ==
  \/ \E f \in FrameInputs : FrameArrives(f)
  \/ \E t \in DesiredTexts : setDesiredHours(t)
  \/ \E m \in {"narrowband", "broadband"} : setFilterMode(m)

Spec == Init /\ [][Next]_vars

GoalFrames ==
  { Frame("M101", <<"H","a">>, 3600, "LIGHT"),
    Frame("M101", <<"R">>, 600, "LIGHT") }

EditKeys == {Ha, SII, R}
RatioTexts == {<<>>, <<50>>, <<250>>, <<1200>>}

InitGoal ==
  /\ \E p \in StoredProfiles : ratio = [k \in Canonical |-> StoredRatio(p, k)]
  /\ frames = <<>>
  /\ desiredHours = 20
  /\ filterMode = "narrowband"
  /\ NormIdle
  /\ ScanIdle
  /\ ExportIdle /\ AnalysisIdle /\ WireIdle /\ ValidateIdle

NextGoal ==
  \/ \E f \in GoalFrames : FrameArrives(f)
  \/ \E k \in EditKeys, t \in RatioTexts : setRatio(k, t)

SpecGoal == InitGoal /\ [][NextGoal]_vars

(***************************************************************************)
(* The frame collection alone: frames of every type arrive, the planner's  *)
(* settings stay as constructed from an empty localStorage.                *)
(***************************************************************************)
AggFrames ==
  { Frame(t, f, e, ty) :
      t \in {"M101", ""},
      f \in {<<"H","a">>, <<>>},
      e \in {300, -300},
      ty \in FrameTypes \cup {""} }

InitAggregate == PlannerIdle /\ NormIdle /\ ScanIdle /\ ExportIdle /\ AnalysisIdle /\ WireIdle /\ ValidateIdle

NextAggregate == \E f \in AggFrames : FrameArrives(f)

SpecAggregate == InitAggregate /\ [][NextAggregate]_vars

(***************************************************************************)
(* A scan (AppContext.tsx onScan 80-129, library/scan.ts scanFrames).      *)
(* The stream is the environment: at each step it delivers a progress      *)
(* line, a frame line or the done line, ends without a done line, or       *)
(* fails (fetch or reader.read() throws).  A line that does not parse is   *)
(* skipped by scanFrames and changes nothing.  status holds which text was *)
(* set last.                                                               *)
(***************************************************************************)
\* (final || []).map(f => ...) (AppContext.tsx 115-120)
MapFinal(fs) == [i \in 1..Len(fs) |-> FinalFrame(fs[i])]

\* the frames onFrame appends for the stream's frames fs, in order
MapLive(fs) == [i \in 1..Len(fs) |-> LiveFrame(fs[i])]

StoredPaths == {<<>>, <<" ">>, <<"/">>}
PathTexts == {<<" ">>, <<"/">>}

ScanFrames ==
  { Frame("M101", <<"h","a">>, 3600, "LIGHT"),
    Frame("M101", <<"O","3">>, 600, ""),
    Frame("M101", Ha, 600, "LIGHT"),
    Frame("M31", <<>>, 600, "DARK") }

\* setBackendPath (AppContext.tsx 39)
setBackendPath(text) ==
  /\ UNCHANGED exportVars
  /\ UNCHANGED analysisVars /\ UNCHANGED <<wireVars, validateVars>>
  /\ backendPath' = text
  /\ needsRescan' = TRUE
  /\ UNCHANGED <<recurse, scanning, status, live, scanned, normalized, scanPc, scanEnd>>
  /\ UNCHANGED plannerVars
  /\ UNCHANGED normVars

\* setRecurse without the rescan mark.
setRecurseSilent(v) ==
  /\ recurse' = v
  /\ UNCHANGED <<backendPath, needsRescan, scanning, status, live, scanned,
                 normalized, scanPc, scanEnd>>
  /\ UNCHANGED <<plannerVars, normVars, exportVars, analysisVars, wireVars,
                 validateVars>>

\* setRecurse (AppContext.tsx 42), the checkbox of the sidebar
setRecurse(v) ==
  /\ recurse' = v
  /\ needsRescan' = TRUE
  /\ UNCHANGED <<backendPath, scanning, status, live, scanned, normalized,
                 scanPc, scanEnd>>
  /\ UNCHANGED <<plannerVars, normVars, exportVars, analysisVars, wireVars,
                 validateVars>>

\* onScan up to the await (80-91); the Scan button is disabled while scanning
onScan ==
  /\ UNCHANGED exportVars
  /\ UNCHANGED analysisVars /\ UNCHANGED <<wireVars, validateVars>>
  /\ scanPc = "idle"
  /\ IF Trim(backendPath) = <<>>
     THEN /\ status' = "Enter a valid backend path"
          /\ UNCHANGED <<needsRescan, scanning, frames, live, scanned,
                         normalized, scanPc, scanEnd>>
     ELSE /\ needsRescan' = FALSE
          /\ scanning' = TRUE
          /\ frames' = <<>>
          /\ live' = <<>>
          /\ scanned' = <<>>
          /\ normalized' = <<>>
          /\ scanPc' = "reading"
          /\ scanEnd' = "none"
          /\ UNCHANGED status
  /\ UNCHANGED <<backendPath, recurse, ratio, desiredHours, filterMode>>
  /\ UNCHANGED normVars

\* a 'progress' line (scan.ts 50-51, AppContext.tsx 91-101)
ProgressMessage ==
  /\ UNCHANGED exportVars
  /\ UNCHANGED analysisVars /\ UNCHANGED <<wireVars, validateVars>>
  /\ scanPc = "reading"
  /\ status' = "Scanning"
  /\ UNCHANGED <<backendPath, recurse, needsRescan, scanning, live, scanned,
                 normalized, scanPc, scanEnd>>
  /\ UNCHANGED plannerVars
  /\ UNCHANGED normVars

\* a 'frame' line (scan.ts 52-56): onFrame, frames.push, onProgress
FrameMessage(f) ==
  /\ UNCHANGED exportVars
  /\ UNCHANGED analysisVars /\ UNCHANGED <<wireVars, validateVars>>
  /\ scanPc = "reading"
  /\ onFrame(f)
  /\ scanned' = Append(scanned, f)
  /\ status' = "Scanning"
  /\ UNCHANGED <<backendPath, recurse, needsRescan, scanning, normalized, scanPc,
                 scanEnd>>

\* onScan after the await with setFrames(normalized) whatever live holds.
FinishSetsFinal(final, info, how) ==
  /\ UNCHANGED exportVars
  /\ UNCHANGED analysisVars /\ UNCHANGED <<wireVars, validateVars>>
  /\ normalized' = MapFinal(final)
  /\ frames' = MapFinal(final)
  /\ status' = info
  /\ scanning' = FALSE
  /\ scanPc' = "idle"
  /\ scanEnd' = how
  /\ UNCHANGED <<backendPath, recurse, needsRescan, live, scanned>>
  /\ UNCHANGED <<ratio, desiredHours, filterMode>>
  /\ UNCHANGED normVars

\* onScan after the await (114-128), final the frames scanFrames returned
Finish(final, info, how) ==
  /\ UNCHANGED exportVars
  /\ UNCHANGED analysisVars /\ UNCHANGED <<wireVars, validateVars>>
  /\ normalized' = MapFinal(final)
  /\ frames' = IF Len(live) = 0 THEN MapFinal(final) ELSE frames
  /\ status' = info
  /\ scanning' = FALSE
  /\ scanPc' = "idle"
  /\ scanEnd' = how
  /\ UNCHANGED <<backendPath, recurse, needsRescan, live, scanned>>
  /\ UNCHANGED <<ratio, desiredHours, filterMode>>
  /\ UNCHANGED normVars

\* the 'done' line (scan.ts 57-63)
DoneMessage == scanPc = "reading" /\ Finish(scanned, "Scanned files", "done")

\* the reader reports done without a 'done' line (scan.ts 40, 70)
StreamEnds == scanPc = "reading" /\ Finish(scanned, "Scanned frames", "eof")

\* fetch or reader.read() throws (scan.ts 33, 39, 71-77)
StreamFails == scanPc = "reading" /\ Finish(<<>>, "Scan failed", "failed")

InitScan ==
  /\ PlannerIdle
  /\ NormIdle
  /\ ExportIdle /\ AnalysisIdle /\ WireIdle /\ ValidateIdle
  /\ backendPath \in StoredPaths
  /\ recurse \in BOOLEAN
  /\ needsRescan = FALSE
  /\ scanning = FALSE
  /\ status = ""
  /\ live = <<>>
  /\ scanned = <<>>
  /\ normalized = <<>>
  /\ scanPc = "idle"
  /\ scanEnd = "none"

NextScan ==
  \/ \E t \in PathTexts : setBackendPath(t)
  \/ \E v \in BOOLEAN : setRecurse(v)
  \/ onScan
  \/ ProgressMessage
  \/ \E f \in ScanFrames : FrameMessage(f)
  \/ DoneMessage
  \/ StreamEnds
  \/ StreamFails

SpecScan == InitScan /\ [][NextScan]_vars

(***************************************************************************)
(* scanFrames read by read (library/scan.ts 35-78).  The response body is  *)
(* text: lines ended by "\n", a message being the three characters         *)
(* "{", c, "}" with c naming its content: "p" a progress message, "d" the  *)
(* done message, "a" and "b" two frame messages.  Any other line does not  *)
(* parse.  calls lists the callbacks scanFrames has made, each with the    *)
(* length of its frames array at the time of the call.                     *)
(***************************************************************************)
MaxMsgs == 3
MaxChunk == 4

Newline == "\n"

FrameIds == {"a", "b"}

\* obj.frame of the frame message c
WireFrame(c) ==
  IF c = "a" THEN Frame("M101", <<"h","a">>, 3600, "LIGHT")
  ELSE Frame("M101", <<"O","3">>, 600, "")

\* JSON.parse(line) and obj.type: the content of the message, "error" when
\* JSON.parse throws
JsonParse(line) ==
  IF Len(line) = 3 /\ line[1] = "{" /\ line[3] = "}"
       /\ line[2] \in FrameIds \cup {"p", "d"}
  THEN line[2]
  ELSE "error"

\* buf.indexOf('\n') + 1: 0 when there is none
IndexOfNewline(b) ==
  IF \A i \in 1..Len(b) : b[i] # Newline THEN 0
  ELSE CHOOSE i \in 1..Len(b) : b[i] = Newline /\ \A j \in 1..(i - 1) : b[j] # Newline

\* the done test that never holds.
IsDoneNever(msg) == FALSE

\* obj.type === 'done'
IsDone(msg) == msg = "d"

\* the inner loop leaving at the first line that does not parse.
RECURSIVE DrainStopsAtBadLine(_, _, _)
DrainStopsAtBadLine(b, fs, cs) ==
  LET idx == IndexOfNewline(b)
      line == Trim(SubSeq(b, 1, idx - 1))
      rest == SubSeq(b, idx + 1, Len(b))
      msg == JsonParse(line)
  IN  IF idx = 0 THEN [buf |-> b, frames |-> fs, calls |-> cs, done |-> FALSE]
      ELSE IF line = <<>> THEN DrainStopsAtBadLine(rest, fs, cs)
      ELSE IF msg = "p"
        THEN DrainStopsAtBadLine(rest, fs, Append(cs, <<"onProgress", Len(fs)>>))
      ELSE IF msg \in FrameIds
        THEN DrainStopsAtBadLine(rest, Append(fs, WireFrame(msg)),
               cs \o << <<"onFrame", WireFrame(msg), Len(fs)>>,
                        <<"onProgress", Len(fs) + 1>> >>)
      ELSE IF IsDone(msg)
        THEN [buf |-> rest, frames |-> fs, calls |-> cs, done |-> TRUE]
      ELSE [buf |-> <<>>, frames |-> fs, calls |-> cs, done |-> FALSE]

\* while ((idx = buf.indexOf('\n')) >= 0) { ... } (scan.ts 43-68) on the
\* buffer b, the frames array fs and the calls made so far cs
RECURSIVE Drain(_, _, _)
Drain(b, fs, cs) ==
  LET idx == IndexOfNewline(b)
      line == Trim(SubSeq(b, 1, idx - 1))
      rest == SubSeq(b, idx + 1, Len(b))
      msg == JsonParse(line)
  IN  IF idx = 0 THEN [buf |-> b, frames |-> fs, calls |-> cs, done |-> FALSE]
      ELSE IF line = <<>> THEN Drain(rest, fs, cs)
      ELSE IF msg = "p"
        THEN Drain(rest, fs, Append(cs, <<"onProgress", Len(fs)>>))
      ELSE IF msg \in FrameIds
        THEN Drain(rest, Append(fs, WireFrame(msg)),
               cs \o << <<"onFrame", WireFrame(msg), Len(fs)>>,
                        <<"onProgress", Len(fs) + 1>> >>)
      ELSE IF IsDone(msg)
        THEN [buf |-> rest, frames |-> fs, calls |-> cs, done |-> TRUE]
      ELSE Drain(rest, fs, cs)

\* the buffer holding only the chunk just read.
ChunkOnly(b, chunk) == chunk

\* buf += decoder.decode(value, { stream: true })
Buffered(b, chunk) == b \o chunk

\* one turn of the outer loop: reader.read() gives the next n characters
Read(n) ==
  /\ sfPc = "reading"
  /\ n \in 1..Len(wire)
  /\ n <= MaxChunk
  /\ LET d == Drain(Buffered(buf, SubSeq(wire, 1, n)), sfFrames, calls)
     IN  /\ buf' = d.buf
         /\ sfFrames' = d.frames
         /\ calls' = d.calls
         /\ sfPc' = IF d.done THEN "returned" ELSE "reading"
         /\ sfReturn' = IF d.done
                        THEN [frames |-> d.frames, info |-> "Scanned files"]
                        ELSE sfReturn
  /\ wire' = SubSeq(wire, n + 1, Len(wire))
  /\ UNCHANGED response
  /\ UNCHANGED <<plannerVars, normVars, scanVars, exportVars, analysisVars,
                 validateVars>>

\* reader.read() reports done (scan.ts 40, 70)
ReadDone ==
  /\ sfPc = "reading"
  /\ wire = <<>>
  /\ sfPc' = "returned"
  /\ sfReturn' = [frames |-> sfFrames, info |-> "Scanned frames"]
  /\ UNCHANGED <<response, wire, buf, sfFrames, calls>>
  /\ UNCHANGED <<plannerVars, normVars, scanVars, exportVars, analysisVars,
                 validateVars>>

\* reader.read() rejects (scan.ts 39, 71-77)
ReadFails ==
  /\ sfPc = "reading"
  /\ sfPc' = "returned"
  /\ sfReturn' = [frames |-> <<>>, info |-> "Scan failed"]
  /\ UNCHANGED <<response, wire, buf, sfFrames, calls>>
  /\ UNCHANGED <<plannerVars, normVars, scanVars, exportVars, analysisVars,
                 validateVars>>

\* the lines a server can send, without their newline
LineTexts ==
  { <<"{","a","}">>, <<"{","b","}">>, <<"{","p","}">>, <<"{","d","}">>,
    <<" ","{","a","}">>, <<"{","a">>, <<" ">> }

\* what can follow the last newline of a body
TailTexts == { <<>>, <<"{","b","}">> }

\* the bodies of n lines
RECURSIVE Bodies(_)
Bodies(n) ==
  IF n = 0 THEN {<<>>}
  ELSE {l \o <<Newline>> \o r : l \in LineTexts, r \in Bodies(n - 1)}

Responses ==
  {b \o t : b \in UNION {Bodies(n) : n \in 0..MaxMsgs}, t \in TailTexts}

\* scanFrames has the response and starts to read it (scan.ts 33-37)
InitStream ==
  /\ PlannerIdle /\ NormIdle /\ ScanIdle /\ ExportIdle /\ AnalysisIdle
  /\ ValidateIdle
  /\ response \in Responses
  /\ wire = response
  /\ buf = <<>>
  /\ sfFrames = <<>>
  /\ calls = <<>>
  /\ sfPc = "reading"
  /\ sfReturn = [frames |-> <<>>, info |-> ""]

NextStream ==
  \/ \E n \in 1..MaxChunk : Read(n)
  \/ ReadDone
  \/ ReadFails

SpecStream == InitStream /\ [][NextStream]_vars

(***************************************************************************)
(* The RejectionValidation page (src/unnamed/part_003): handleValidate     *)
(* reads a stream of 'data: ' messages.  The stream is the environment: it *)
(* delivers a progress, a complete or an error message, ends, or fails.    *)
(* A state that is null in the code is the text "null".  valLast is the    *)
(* type of the last message handleValidate has handled, valTimers the      *)
(* number of pending setTimeout callbacks.                                 *)
(***************************************************************************)
MaxTimers == 2

ValResults == {"results1", "results2"}

ServerErrors == {"phd2 log not found"}

FailureTexts == {"Validation failed: Internal Server Error", "No response body",
                 "Failed to fetch"}

\* frames.length > 0 && rejectionData !== null (part_003 40)
canValidate == Len(frames) > 0 /\ rejectionData # "null"

\* handleValidate up to the first await (42-54); the button is disabled
\* unless canValidate holds and isLoading is false (281)
handleValidate ==
  /\ canValidate /\ ~isLoading
  /\ valPc = "idle"
  /\ valTimers < MaxTimers
  /\ IF ~canValidate
     THEN /\ error' = "Missing frames or rejection data"
          /\ UNCHANGED <<isLoading, progress, valPc, valLast>>
     ELSE /\ isLoading' = TRUE
          /\ error' = "null"
          /\ progress' = "Starting..."
          /\ valPc' = "reading"
          /\ valLast' = "none"
  /\ UNCHANGED <<rejectionData, validationResults, valTimers>>
  /\ UNCHANGED <<plannerVars, normVars, scanVars, exportVars, analysisVars,
                 wireVars>>

\* a message of type progress (91-96)
ValidateProgress ==
  /\ valPc = "reading"
  /\ progress' = "progress"
  /\ valLast' = "progress"
  /\ UNCHANGED <<rejectionData, isLoading, error, validationResults, valPc,
                 valTimers>>
  /\ UNCHANGED <<plannerVars, normVars, scanVars, exportVars, analysisVars,
                 wireVars>>

\* a message of type complete (97-100)
ValidateComplete(data) ==
  /\ valPc = "reading"
  /\ validationResults' = data
  /\ progress' = "Complete!"
  /\ valLast' = "complete"
  /\ UNCHANGED <<rejectionData, isLoading, error, valPc, valTimers>>
  /\ UNCHANGED <<plannerVars, normVars, scanVars, exportVars, analysisVars,
                 wireVars>>

\* a message of type error (101-106): the Error thrown at 102 is caught by
\* the catch of the try around JSON.parse, which only warns
ValidateError(message) ==
  /\ valPc = "reading"
  /\ valLast' = "error"
  /\ UNCHANGED <<rejectionData, isLoading, error, validationResults, progress,
                 valPc, valTimers>>
  /\ UNCHANGED <<plannerVars, normVars, scanVars, exportVars, analysisVars,
                 wireVars>>

\* the finally block (113-116)
ValidateFinally ==
  /\ isLoading' = FALSE
  /\ valTimers' = valTimers + 1
  /\ valPc' = "idle"

\* the reader reports done (78), then the finally block
ValidateStreamEnds ==
  /\ valPc = "reading"
  /\ ValidateFinally
  /\ UNCHANGED <<rejectionData, error, validationResults, progress, valLast>>
  /\ UNCHANGED <<plannerVars, normVars, scanVars, exportVars, analysisVars,
                 wireVars>>

\* fetch rejects, the response is not ok or has no body, or a read rejects
\* (54-71, 77): the outer catch (110-112), then the finally block
ValidateFails(text) ==
  /\ valPc = "reading"
  /\ error' = text
  /\ ValidateFinally
  /\ UNCHANGED <<rejectionData, validationResults, progress, valLast>>
  /\ UNCHANGED <<plannerVars, normVars, scanVars, exportVars, analysisVars,
                 wireVars>>

\* setTimeout(() => setProgress(null), 2000) fires (115)
ProgressTimeout ==
  /\ valTimers > 0
  /\ valTimers' = valTimers - 1
  /\ progress' = "null"
  /\ UNCHANGED <<rejectionData, isLoading, error, validationResults, valPc,
                 valLast>>
  /\ UNCHANGED <<plannerVars, normVars, scanVars, exportVars, analysisVars,
                 wireVars>>

\* the page mounts with the frames and the rejection data of a scan, or
\* without them
InitValidate ==
  /\ ratio = DefaultRatio
  /\ frames \in {<<>>, <<Frame("M101", Ha, 3600, "LIGHT")>>}
  /\ desiredHours = 20
  /\ filterMode = "narrowband"
  /\ NormIdle /\ ScanIdle /\ ExportIdle /\ AnalysisIdle /\ WireIdle
  /\ rejectionData \in {"null", "data"}
  /\ isLoading = FALSE
  /\ error = "null"
  /\ validationResults = "null"
  /\ progress = "null"
  /\ valPc = "idle"
  /\ valLast = "none"
  /\ valTimers = 0

NextValidate ==
  \/ handleValidate
  \/ ValidateProgress
  \/ \E data \in ValResults : ValidateComplete(data)
  \/ \E message \in ServerErrors : ValidateError(message)
  \/ ValidateStreamEnds
  \/ \E text \in FailureTexts : ValidateFails(text)
  \/ ProgressTimeout

SpecValidate == InitValidate /\ [][NextValidate]_vars

(***************************************************************************)
(* The AstroBin export page: frames arrive, the user edits the filter map. *)
(***************************************************************************)
ExportFrames ==
  { DatedFrame("M101", <<"h","a">>, 300, "LIGHT", 1),
    DatedFrame("M101", <<"h","a">>, 300, "LIGHT", 2),
    DatedFrame("M101", <<"h","a">>, 600, "LIGHT", 1),
    DatedFrame("M101", <<"O","3">>, 300, "LIGHT", 1),
    DatedFrame("M101", <<"C","L","S">>, 300, "LIGHT", 1),
    DatedFrame("M101", <<>>, 300, "LIGHT", 1),
    DatedFrame("M101", <<"h","a">>, 0, "LIGHT", 1),
    DatedFrame("M101", <<"h","a">>, 300, "DARK", 1),
    DatedFrame("", <<"h","a">>, 300, "LIGHT", 1) }

MapTexts ==
  { DEFAULT_FILTER_MAP_TEXT,
    <<>>,
    DEFAULT_FILTER_MAP_TEXT \o <<"\n">> \o JoinLines(<<<<"H","a","=","1">>>>),
    JoinLines(<<<<" ","C","L","S"," ","="," ","9">>,
                <<"H","a">>,
                <<"O","3","=","4","=","7">>,
                <<>>,
                <<" ","h","a","=","2"," ">>>>) }

\* the textarea's onChange (TargetFilterReport.tsx 312)
setFilterMapText(text) ==
  /\ filterMapText' = text
  /\ UNCHANGED plannerVars
  /\ UNCHANGED normVars
  /\ UNCHANGED scanVars
  /\ UNCHANGED analysisVars /\ UNCHANGED <<wireVars, validateVars>>

InitExport == PlannerIdle /\ NormIdle /\ ScanIdle /\ ExportIdle /\ AnalysisIdle /\ WireIdle /\ ValidateIdle

NextExport ==
  \/ \E f \in ExportFrames : FrameArrives(f)
  \/ \E t \in MapTexts : setFilterMapText(t)

SpecExport == InitExport /\ [][NextExport]_vars

(***************************************************************************)
(* The Session Log Analyzer and the ValidationScorer.  Their code runs on  *)
(* the server and is not part of the sources; the pages NinaAnalyzer.tsx   *)
(* and the validation page only display their results.  They are modelled  *)
(* from sections 3 and 4.5-4.7 of the specification, with the field names  *)
(* the pages read.                                                         *)
(*                                                                         *)
(* A log line is [ts, kind, label]: ts the parsed timestamp in seconds, or *)
(* -1 when it does not parse; kind "open" or "close" for a line that opens *)
(* or closes the activity label, "other" for any other recognised line.    *)
(* A well-formed log has its parsed timestamps in nondecreasing order.     *)
(***************************************************************************)
Line(ts, kind, label) == [ts |-> ts, kind |-> kind, label |-> label]

Segment(start, end, label) ==
  [start |-> start, end |-> end, label |-> label, duration_seconds |-> end - start]

\* the lines whose timestamp parses
Timed(lines) == SelectSeq(lines, LAMBDA l : l.ts >= 0)

\* a span is appended with the idle spans left out.
EmitNoIdle(segs, label, start, end) ==
  IF end = start \/ label = "idle" THEN segs
  ELSE IF segs # <<>> /\ segs[Len(segs)].label = label /\ segs[Len(segs)].end = start
    THEN [segs EXCEPT ![Len(segs)] = Segment(segs[Len(segs)].start, end, label)]
    ELSE Append(segs, Segment(start, end, label))

\* a span is appended to the segments; an empty span adds nothing and a
\* span with the label of the last segment extends it
Emit(segs, label, start, end) ==
  IF end = start THEN segs
  ELSE IF segs # <<>> /\ segs[Len(segs)].label = label /\ segs[Len(segs)].end = start
    THEN [segs EXCEPT ![Len(segs)] = Segment(segs[Len(segs)].start, end, label)]
    ELSE Append(segs, Segment(start, end, label))

\* the segmenter after the timed lines ls, from the state st: the segments
\* so far, the label of the open span ("idle" when no activity is open) and
\* the time it opened
RECURSIVE SegmentLines(_, _)
SegmentLines(ls, st) ==
  IF ls = <<>> THEN st
  ELSE LET l == Head(ls)
       IN  SegmentLines(Tail(ls),
             IF l.kind = "open"
               THEN [segs |-> Emit(st.segs, st.cur, st.since, l.ts),
                     cur |-> l.label, since |-> l.ts, last |-> l.ts]
             ELSE IF l.kind = "close" /\ st.cur = l.label
               THEN [segs |-> Emit(st.segs, st.cur, st.since, l.ts),
                     cur |-> "idle", since |-> l.ts, last |-> l.ts]
             ELSE [st EXCEPT !.last = l.ts])

LogSegmenter(lines) ==
  LET ls == Timed(lines)
  IN  IF ls = <<>> THEN <<>>
      ELSE LET st == SegmentLines(ls, [segs |-> <<>>, cur |-> "idle",
                                       since |-> ls[1].ts, last |-> ls[1].ts])
           IN  Emit(st.segs, st.cur, st.since, st.last)

\* the counters of the segmenter
LogCounters(lines) ==
  [lines_total |-> Len(lines),
   lines_matched |-> Len(Timed(lines)),
   lines_skipped_ts |-> Len(lines) - Len(Timed(lines))]

(***************************************************************************)
(* BurstDetector: a guiding sample is [ts, rms], rms in tenths of an       *)
(* arcsecond; the samples are in order of time.                            *)
(***************************************************************************)
Sample(ts, rms) == [ts |-> ts, rms |-> rms]

DefaultThreshold == 15
MergeGap == 2

Burst(start, end, count, peak) ==
  [start_ts |-> start, end_ts |-> end, duration_sec |-> end - start,
   event_count |-> count, peak_rms |-> peak]

\* a sample joins the open burst only when it is closer than the gap.
JoinsStrictly(b, s, gap) == s.ts - b.end_ts < gap

\* a sample at or over the threshold joins the open burst when it is no
\* more than the gap after the burst's last such sample
Joins(b, s, gap) == s.ts - b.end_ts <= gap

RECURSIVE DetectBursts(_, _, _, _)
DetectBursts(ss, threshold, gap, bursts) ==
  IF ss = <<>> THEN bursts
  ELSE LET s == Head(ss)
           n == Len(bursts)
       IN  DetectBursts(Tail(ss), threshold, gap,
             IF s.rms < threshold THEN bursts
             ELSE IF n > 0 /\ Joins(bursts[n], s, gap)
               THEN [bursts EXCEPT ![n] =
                       Burst(bursts[n].start_ts, s.ts, bursts[n].event_count + 1,
                             IF s.rms > bursts[n].peak_rms THEN s.rms
                             ELSE bursts[n].peak_rms)]
             ELSE Append(bursts, Burst(s.ts, s.ts, 1, s.rms)))

BurstDetector(ss, threshold, gap) == DetectBursts(ss, threshold, gap, <<>>)

(***************************************************************************)
(* ValidationScorer: a scored frame is [rejected, score, threshold], the   *)
(* quality score and its threshold in tenths.  accuracy is the quotient    *)
(* [n, d]; with no frame it is 0/0.                                        *)
(***************************************************************************)
Scored(rejected, score, threshold) ==
  [rejected |-> rejected, score |-> score, threshold |-> threshold]

\* the truth table with the comparison of the score reversed.
OutcomeReversed(f) ==
  IF f.rejected
    THEN IF f.score < f.threshold THEN "FALSE_POSITIVE" ELSE "CORRECT_REJECT"
    ELSE IF f.score < f.threshold THEN "CORRECT_ACCEPT" ELSE "FALSE_NEGATIVE"

\* the truth table of section 4.7
Outcome(f) ==
  IF f.rejected
    THEN IF f.score >= f.threshold THEN "FALSE_POSITIVE" ELSE "CORRECT_REJECT"
    ELSE IF f.score >= f.threshold THEN "CORRECT_ACCEPT" ELSE "FALSE_NEGATIVE"

CountOf(fs, o) == Cardinality({i \in 1..Len(fs) : Outcome(fs[i]) = o})

ValidationScorer(fs) ==
  [results |-> [i \in 1..Len(fs) |-> Outcome(fs[i])],
   summary |->
     [total_frames |-> Len(fs),
      correct_rejects |-> CountOf(fs, "CORRECT_REJECT"),
      correct_accepts |-> CountOf(fs, "CORRECT_ACCEPT"),
      false_positives |-> CountOf(fs, "FALSE_POSITIVE"),
      false_negatives |-> CountOf(fs, "FALSE_NEGATIVE"),
      accuracy |-> [n |-> CountOf(fs, "CORRECT_REJECT") + CountOf(fs, "CORRECT_ACCEPT"),
                    d |-> Len(fs)]]]

(***************************************************************************)
(* The inputs of the analyzer, one line, sample or scored frame at a time. *)
(***************************************************************************)
LastTs(q) == IF q = <<>> THEN 0 ELSE q[Len(q)].ts

LastLineTs(lines) == LastTs(Timed(lines))

Activities == {"imaging", "autofocus"}

\* one more line in the log
LogLine(dt, kind, label, parses) ==
  /\ Len(logLines) < MaxLines
  /\ logLines' = Append(logLines,
       Line(IF parses THEN LastLineTs(logLines) + dt ELSE -1, kind, label))
  /\ UNCHANGED <<samples, valFrames>>
  /\ UNCHANGED <<plannerVars, normVars, scanVars, exportVars, wireVars, validateVars>>

\* one more guiding sample
GuidingSample(dt, rms) ==
  /\ Len(samples) < MaxSamples
  /\ samples' = Append(samples, Sample(LastTs(samples) + dt, rms))
  /\ UNCHANGED <<logLines, valFrames>>
  /\ UNCHANGED <<plannerVars, normVars, scanVars, exportVars, wireVars, validateVars>>

\* one more frame with its quality score
ScoredFrame(rejected, score, threshold) ==
  /\ Len(valFrames) < MaxScored
  /\ valFrames' = Append(valFrames, Scored(rejected, score, threshold))
  /\ UNCHANGED <<logLines, samples>>
  /\ UNCHANGED <<plannerVars, normVars, scanVars, exportVars, wireVars, validateVars>>

InitAnalysis == PlannerIdle /\ NormIdle /\ ScanIdle /\ ExportIdle /\ AnalysisIdle /\ WireIdle /\ ValidateIdle

NextSegment ==
  \/ \E dt \in {0, 2}, kind \in {"open", "close"}, label \in Activities :
       LogLine(dt, kind, label, TRUE)
  \/ \E dt \in {0, 2} : LogLine(dt, "other", "", TRUE)
  \/ LogLine(0, "other", "", FALSE)

SpecSegment == InitAnalysis /\ [][NextSegment]_vars

NextBurst == \E dt \in 1..3, rms \in {14, 15, 20} : GuidingSample(dt, rms)

SpecBurst == InitAnalysis /\ [][NextBurst]_vars

NextValidation ==
  \E rejected \in BOOLEAN, score \in {4, 5, 6} : ScoredFrame(rejected, score, 5)

SpecValidation == InitAnalysis /\ [][NextValidation]_vars

(***************************************************************************)
(* Properties of the allocation rows, checked under Spec (C6 under         *)
(* SpecAggregate).                                                         *)
(***************************************************************************)
RECURSIVE SumN(_)
SumN(S) ==
  IF S = {} THEN 0
  ELSE LET p == CHOOSE q \in S : TRUE IN p[2].n + SumN(S \ {p})

BandOf(mode) ==
  IF mode = "narrowband" THEN {Ha, OIII, SII}
  ELSE IF mode = "broadband" THEN {R, G, B, L}
  ELSE {}

\* C1: in every allocation row the reported values (hundredths of an hour)
\* satisfy captured - target = overshoot - needed.
C1_Reconciles ==
  \A x \in Render : \A r \in x[3].rows :
    r.captured - r.target = r.overshoot - r.needed

\* C2: in every allocation row needed and overshoot are never both nonzero
\* (min(needed, overshoot) = 0); needed is positive only when the filter's
\* target exceeds its captured time, overshoot only when captured exceeds
\* the target.
C2_NeverBoth ==
  \A x \in Render : \A r \in x[3].rows :
    LET c == At(x[2], r.filter)
        t == TargetSecIn(x[3], r.filter)
    IN  /\ r.needed >= 0
        /\ r.overshoot >= 0
        /\ r.needed = 0 \/ r.overshoot = 0
        /\ r.needed > 0 => t.n > c * t.d
        /\ r.overshoot > 0 => c * t.d > t.n

\* A target one of whose rows needs time while another overshoots.
C2_Witness ==
  \E x \in Render : \E r1, r2 \in x[3].rows : r1.needed > 0 /\ r2.overshoot > 0

\* C3 as stated: in every allocation row exactly one of needed and overshoot
\* is nonzero, unless the row's captured and target are both zero.
C3_ExactlyOne ==
  \A x \in Render : \A r \in x[3].rows :
    \/ (r.needed # 0) # (r.overshoot # 0)
    \/ r.captured = 0 /\ r.target = 0

\* C3 as amended: exactly one of needed and overshoot is nonzero when the
\* captured and target hours differ by more than 0.005 h, and both are zero
\* when they differ by less than 0.005 h (so a filter exactly on target has
\* neither).
C3_ExactlyOneUnlessOnTarget ==
  \A x \in Render : \A r \in x[3].rows :
    LET c == At(x[2], r.filter)
        t == TargetSecIn(x[3], r.filter)
        diff == Abs(c * t.d - t.n)
    IN  /\ 2 * diff > 36 * t.d => (r.needed # 0) # (r.overshoot # 0)
        /\ 2 * diff < 36 * t.d => r.needed = 0 /\ r.overshoot = 0

\* A row with captured time exactly on its target: neither needed nor overshoot.
C3_Witness ==
  \E x \in Render : \E r \in x[3].rows :
    r.captured > 0 /\ r.target = r.captured /\ r.needed = 0 /\ r.overshoot = 0

\* C4: for one target, when the goal weights of the displayed filters sum to
\* more than 0, the targetSeconds of the displayed filters sum to totalSeconds.
C4_TargetsSumToTotal ==
  \A x \in Render :
    LET a == x[3]
        band == BandOf(filterMode)
        goal == Goal(frames, ratio)
    IN  SumOver(band, goal) > 0 =>
          \E d \in {p[2].d : p \in a.targetSec} :
            /\ \A p \in a.targetSec : p[2].d = d
            /\ SumN(a.targetSec) = a.totalSeconds * d

\* A target with a positive total whose displayed filters have unequal targets.
C4_Witness ==
  \E x \in Render :
    /\ x[3].sumW > 0
    /\ x[3].totalSeconds > 0
    /\ \E p, q \in x[3].targetSec : p[2].n # q[2].n

\* The spec's example scenario 2, given to the row computation.
C5_Example ==
  Alloc([k \in {Ha} |-> 3600], [k \in {Ha, OIII} |-> 10], 2, "narrowband").rows
    = { [filter |-> Ha, captured |-> 100, capturedVis |-> 100,
         needed |-> 0, overshoot |-> 0, target |-> 100],
        [filter |-> OIII, captured |-> 0, capturedVis |-> 0,
         needed |-> 100, overshoot |-> 0, target |-> 100] }

\* C5: each displayed filter's targetSeconds is (weight / sumW) x totalSeconds
\* with sumW the sum of the weights of the active band's filters only; a
\* weight given to a filter outside the active band never changes a displayed
\* filter's target; and example scenario 2 gives Ha target 1.0 h (needed 0,
\* overshoot 0) and OIII target 1.0 h (needed 1.0 h).
C5_TargetFromBandWeights ==
  /\ C5_Example
  /\ \A x \in Render :
       LET a == x[3]
           band == BandOf(filterMode)
           goal == Goal(frames, ratio)
           bandSum == SumOver(band, goal)
       IN  /\ bandSum > 0 =>
                \A p \in a.targetSec :
                  p[2].n * bandSum = goal[p[1]] * a.totalSeconds * p[2].d
           /\ \A w \in {0, 70} :
                Alloc(x[2], [k \in Canonical |-> IF k \in band THEN goal[k] ELSE w],
                      desiredHours, filterMode).targetSec = a.targetSec

\* Narrowband rows computed while the broadband filter R carries weight 2.5.
C5_Witness ==
  /\ filterMode = "narrowband"
  /\ ratio[R] = 25
  /\ \E x \in Render : x[3].sumW > 0 /\ x[3].rows # {}

\* C6: only LIGHT frames count: adding a frame of another type to the frame
\* collection changes no (target, filter) total.
C6_OnlyLightFramesCount ==
  [][ (/\ Len(frames') = Len(frames) + 1
       /\ frames'[Len(frames')].frameType # "LIGHT")
      => totalsByTarget(frames', FALSE) = totalsByTarget(frames, FALSE) ]_vars

(***************************************************************************)
(* Idempotence of normalizeFilter, checked under SpecNormalize.            *)
(***************************************************************************)
\* C7: normalizeFilter(normalizeFilter(x)) = normalizeFilter(x) for every x;
\* the canonical names and "Unknown" map to themselves; the empty and the
\* whitespace-only text map to "Unknown".
C7_Idempotent ==
  /\ nfStep = 2 => nfAgain = nfOut
  /\ nfStep >= 1 /\ nfIn \in Canonical \cup {Unknown} => nfOut = nfIn
  /\ nfStep >= 1 /\ (\A i \in 1..Len(nfIn) : nfIn[i] \in Whitespace)
       => nfOut = Unknown

\* A name no rule matches, returned trimmed and normalised again.
C7_Witness ==
  /\ nfStep = 2
  /\ nfOut \notin Canonical \cup {Unknown}
  /\ nfOut # nfIn

(***************************************************************************)
(* Properties of the goal, checked under SpecGoal.                         *)
(***************************************************************************)
\* C8: with no frames, and with every supplied weight zero, the goal gives
\* weight 1 to each of the seven canonical filters and to no other key.
C8_EqualFallback ==
  (Len(frames) = 0 \/ \A k \in Canonical : ratio[k] = 0)
    => Goal(frames, ratio) = [k \in {Ha, OIII, SII, R, G, B, L} |-> 10]

\* Frames exist and every ratio is zero.
C8_Witness == Len(frames) > 0 /\ \A k \in Canonical : ratio[k] = 0

\* C9: when frames exist and some supplied weight is positive, each filter's
\* resolved weight is its supplied weight, a supplied 0 included.
C9_WeightsAsIs ==
  (Len(frames) > 0 /\ \E k \in Canonical : ratio[k] > 0)
    => \A k \in Canonical :
         k \in DOMAIN Goal(frames, ratio) /\ Goal(frames, ratio)[k] = ratio[k]

\* C10: no negative weight reaches the allocation: every weight of the goal
\* map from which sumW is computed is > 0.
C10_NoNegativeWeight ==
  \A x \in Render :
    LET normGoal == NormGoal(Goal(frames, ratio))
    IN  \A k \in DOMAIN normGoal : normGoal[k] > 0

(***************************************************************************)
(* Properties of a scan, checked under SpecScan (C13 under SpecAggregate). *)
(***************************************************************************)
\* the component's render of a frame collection fs
RenderOf(fs) ==
  LET goal == Goal(fs, ratio)
      totals == totalsByTarget(fs, FALSE)
  IN  {<<t, Alloc(totals[t], goal, desiredHours, filterMode).rows>> :
         t \in DOMAIN totals}

\* C11: the frames accumulated one at a time by onFrame are, at every moment
\* of a scan and when it has finished, the normalised frames scanFrames has
\* collected so far (same frames, same order, same normalisation); when the
\* scan has finished they are the normalised batch, and the allocation rows
\* of the two collections are the same.
C11_StreamEqualsBatch ==
  /\ (scanPc = "reading" \/ scanEnd \in {"done", "eof"})
       => /\ frames = MapFinal(scanned)
          /\ live = frames
  /\ scanEnd \in {"done", "eof"}
       => /\ frames = normalized
          /\ RenderOf(frames) = RenderOf(normalized)

C11_Witness ==
  /\ scanEnd = "done"
  /\ Len(scanned) = 2
  /\ scanned[1].filter = <<"h","a">>
  /\ frames[1].filter = Ha
  /\ scanned[2].frameType = ""
  /\ frames[2].frameType = "LIGHT"

\* C12: when the stream has failed after k frame lines, onScan has returned
\* (no exception), scanning is false and the frame collection holds exactly
\* the k frames received, normalised, in order.
C12_PartialFramesKept ==
  scanEnd = "failed"
    => /\ scanPc = "idle"
       /\ scanning = FALSE
       /\ Len(frames) = Len(scanned)
       /\ frames = MapLive(scanned)

C12_Witness ==
  /\ scanEnd = "failed"
  /\ Len(scanned) = 2
  /\ Len(frames) = 2
  /\ normalized = <<>>

\* C13: no (target, filter) total has a negative exposure added into it: the
\* totals are those of the frames whose exposure is not negative.
C13_NegativeExposureNotAdded ==
  totalsByTarget(frames, FALSE) =
    totalsByTarget(SelectSeq(frames, LAMBDA f : f.exposure_s >= 0), FALSE)

(***************************************************************************)
(* Properties of the AstroBin export, checked under SpecExport.            *)
(***************************************************************************)
\* the frames of the collection that are exported for target t
ExportedOf(t) ==
  {i \in 1..Len(frames) :
     /\ frames[i].frameType = "LIGHT"
     /\ frames[i].exposure_s # 0
     /\ TargetOf(frames[i]) = t}

\* (date, mapped filter id, duration) of frame i
TripleOf(i) ==
  <<frames[i].date, FilterId(parseFilterMap(filterMapText), frames[i].filter),
    frames[i].exposure_s>>

Reverse(q) == [i \in 1..Len(q) |-> q[Len(q) + 1 - i]]

RowSet(g) == UNION {{<<t, g[t][i]>> : i \in 1..Len(g[t])} : t \in DOMAIN g}

AstroBinId ==
  (R :> <<"3","0","0","7">>) @@ (Ha :> <<"4","6","5","7">>) @@ (OIII :> <<"4","7","4","6">>) @@ (SII :> <<"4","8","3","8">>) @@
  (L :> <<"3","0","1","2">>) @@ (G :> <<"3","0","1","1">>) @@ (B :> <<"3","0","0","8">>)

C16_SegmentsCoverLog ==
  LET segs == LogSegmenter(logLines)
      ls == Timed(logLines)
  IN  /\ \A i \in 1..Len(segs) :
           /\ segs[i].end >= segs[i].start
           /\ segs[i].duration_seconds = segs[i].end - segs[i].start
      /\ \A i \in 1..(Len(segs) - 1) :
           /\ segs[i].end = segs[i + 1].start
           /\ segs[i].start <= segs[i + 1].start
      /\ ls = <<>> => segs = <<>>
      /\ ls # <<>> =>
           /\ SumOver(1..Len(segs), [i \in 1..Len(segs) |-> segs[i].duration_seconds])
                = ls[Len(ls)].ts - ls[1].ts
           /\ segs # <<>> =>
                /\ segs[1].start = ls[1].ts
                /\ segs[Len(segs)].end = ls[Len(ls)].ts

\* an activity is followed by time that no activity covers
C16_Witness ==
  LET segs == LogSegmenter(logLines)
  IN  /\ Len(segs) >= 2
      /\ \E i \in 1..(Len(segs) - 1) :
           /\ segs[i].label \in Activities
           /\ segs[i + 1].label = "idle"
           /\ segs[i + 1].duration_seconds > 0

\* the samples at or over the threshold
Above(ss) == {i \in 1..Len(ss) : ss[i].rms >= DefaultThreshold}

\* the bursts whose span holds sample i
BurstsOf(ss, i) ==
  LET bursts == BurstDetector(ss, DefaultThreshold, MergeGap)
  IN  {n \in 1..Len(bursts) : bursts[n].start_ts <= ss[i].ts /\ ss[i].ts <= bursts[n].end_ts}

\* i and j are samples over the threshold with none between them
Successive(ss, i, j) ==
  /\ i \in Above(ss) /\ j \in Above(ss) /\ i < j
  /\ \A m \in Above(ss) : ~(i < m /\ m < j)

\* example scenario 3: RMS [1.0,1.6,1.7,1.4,2.0,0.9] at 1-second spacing
Scenario3 ==
  <<Sample(0, 10), Sample(1, 16), Sample(2, 17), Sample(3, 14), Sample(4, 20),
    Sample(5, 9)>>

Scenario3OneBurst ==
  LET bursts == BurstDetector(Scenario3, 15, 2)
  IN  /\ Len(bursts) = 1
      /\ bursts[1].start_ts = 1
      /\ bursts[1].end_ts = 4
      /\ bursts[1].peak_rms = 20

SuccessiveMergeWithinGap ==
  /\ \A i \in Above(samples) : Cardinality(BurstsOf(samples, i)) = 1
  /\ \A i, j \in 1..Len(samples) :
       Successive(samples, i, j) =>
         (BurstsOf(samples, i) = BurstsOf(samples, j)
            <=> samples[j].ts - samples[i].ts <= MergeGap)

\* C17 as claimed: successive samples over the threshold share a burst
\* exactly when they are at most the merge gap apart, scenario 3 gives one
\* burst over indices 1-4 with peak 2.0, and no two samples more than the
\* merge gap apart belong to the same burst.
C17_NoPairBeyondGap ==
  /\ SuccessiveMergeWithinGap
  /\ Scenario3OneBurst
  /\ \A i, j \in Above(samples) :
       (i < j /\ BurstsOf(samples, i) = BurstsOf(samples, j))
         => samples[j].ts - samples[i].ts <= MergeGap

\* C17 amended: successive samples over the threshold share a burst exactly
\* when they are at most the merge gap apart (so successive samples more
\* than the gap apart never share one), samples under the threshold between
\* them do not split the burst, and scenario 3 gives one burst over indices
\* 1-4 with peak 2.0.
C17_SuccessiveWithinGap ==
  /\ SuccessiveMergeWithinGap
  /\ Scenario3OneBurst

\* two samples over the threshold exactly the gap apart, a sample under it
\* between them, one burst; and a later sample more than the gap away
C17_Witness ==
  \E i, j, k \in 1..Len(samples) :
    /\ Successive(samples, i, j)
    /\ j = i + 2
    /\ samples[j].ts - samples[i].ts = MergeGap
    /\ BurstsOf(samples, i) = BurstsOf(samples, j)
    /\ Successive(samples, j, k)
    /\ samples[k].ts - samples[j].ts > MergeGap
    /\ BurstsOf(samples, k) # BurstsOf(samples, j)

\* the truth table of section 4.7, row by row
TableOutcome(rejected, atLeast) ==
  CASE rejected /\ ~atLeast -> "CORRECT_REJECT"
    [] rejected /\ atLeast -> "FALSE_POSITIVE"
    [] ~rejected /\ atLeast -> "CORRECT_ACCEPT"
    [] ~rejected /\ ~atLeast -> "FALSE_NEGATIVE"

OutcomesAndCounts ==
  LET v == ValidationScorer(valFrames)
  IN  /\ Len(v.results) = Len(valFrames)
      /\ \A i \in 1..Len(valFrames) :
           v.results[i] = TableOutcome(valFrames[i].rejected,
                                       valFrames[i].score >= valFrames[i].threshold)
      /\ v.summary.correct_rejects + v.summary.false_positives
           + v.summary.correct_accepts + v.summary.false_negatives = Len(valFrames)
      /\ v.summary.accuracy.n = v.summary.correct_rejects + v.summary.correct_accepts
      /\ v.summary.accuracy.d = v.summary.total_frames

\* the quotient q is a number between 0 and 1
InUnitInterval(q) == q.d > 0 /\ 0 <= q.n /\ q.n <= q.d

C19_ZeroSumEqualSplit ==
  \A x \in Render :
    LET a == x[3]
        nDisplayed == Cardinality(a.displayedKeys)
    IN  /\ (a.sumW = 0 /\ nDisplayed > 0) =>
             /\ {p[1] : p \in a.targetSec} = a.displayedKeys
             /\ \A p \in a.targetSec :
                  /\ p[2].d > 0
                  /\ p[2].n * nDisplayed = a.totalSeconds * p[2].d
        /\ nDisplayed = 0 => (a.targetSec = {} /\ a.rows = {})

\* the displayed weights sum to 0 and there is time to share
C19_Witness ==
  \E x \in Render :
    /\ x[3].sumW = 0
    /\ x[3].displayedKeys # {}
    /\ x[3].totalSeconds > 0
    /\ x[3].rows # {}

\* C20: totalSeconds of a target is desiredHours x 3600 when desiredHours
\* is a number > 0; when desiredHours is undefined, zero or negative it is
\* the sum of the target's captured seconds, which is not negative, and the
\* allocation is the one of desiredHours 0.
C20_TotalSeconds ==
  \A x \in Render :
    LET current == x[2]
        a == x[3]
        sum == SumOver(DOMAIN current, current)
    IN  /\ desiredHours > 0 => a.totalSeconds = desiredHours * 3600
        /\ desiredHours <= 0 =>
             /\ a.totalSeconds = sum
             /\ a.totalSeconds >= 0
             /\ a = Alloc(current, Goal(frames, ratio), 0, filterMode)
        /\ TotalSecondsOf(current, <<>>) = sum
        /\ TotalSecondsOf(current, <<desiredHours>>) = a.totalSeconds

\* a negative desiredHours with captured time
C20_Witness ==
  /\ desiredHours < 0
  /\ \E x \in Render : x[3].totalSeconds > 0 /\ x[3].rows # {}

(***************************************************************************)
(* Properties of the allocation over the frames a scan has received,       *)
(* checked under SpecScan: scanned holds the frames as the stream sent     *)
(* them, with their raw filter names.                                      *)
(***************************************************************************)
\* the seconds the stream has sent for target t under a raw filter name that
\* normalises to k
RawSeconds(t, k) ==
  LET idx == {i \in 1..Len(scanned) :
                TargetOf(scanned[i]) = t /\ normalizeFilter(scanned[i].filter) = k}
  IN  SumOver(idx, [i \in 1..Len(scanned) |-> scanned[i].exposure_s])

\* the goal weight held under a raw key that normalises to k
RawWeight(goal, k) ==
  SumOver({raw \in DOMAIN goal : normalizeFilter(raw) = k}, goal)

C22_RowsInActiveBand ==
  LET goal == Goal(frames, ratio)
  IN  /\ narrow \cap broad = {}
      /\ \A x \in Render :
           /\ \A r \in x[3].rows :
                /\ filterMode = "narrowband" => r.filter \in {Ha, OIII, SII}
                /\ filterMode = "broadband" => r.filter \in {R, G, B, L}
                /\ r.filter \in BandOf(filterMode)
           /\ \A k \in DOMAIN x[2] :
                k \notin {Ha, OIII, SII, R, G, B, L}
                  => /\ \A r \in x[3].rows : r.filter # k
                     /\ k \notin x[3].displayedKeys
           /\ x[3].sumW = SumOver(BandOf(filterMode),
                                  [k \in BandOf(filterMode) |-> goal[k]])

C22_Witness ==
  /\ filterMode = "narrowband"
  /\ \E x \in Render :
       /\ <<"C","L","S">> \in DOMAIN x[2]
       /\ x[2][<<"C","L","S">>] > 0
       /\ x[3].rows # {}
  /\ \E x \in Render :
       /\ R \in DOMAIN x[2]
       /\ x[2][R] > 0
       /\ x[3].rows # {}

\* the displayed filter k of allocation a has a row
HasRow(a, k) == \E r \in a.rows : r.filter = k

\* x seconds (a fraction) round to at least one hundredth of an hour
RoundsToHundredth(n, d) == 2 * Abs(n) >= 36 * d

\* C23 as claimed: a displayed filter has no row exactly when its captured
\* seconds are zero and equal its target seconds; any captured seconds and
\* any deficit or surplus against the target give a row.
C23_AnyNonzeroShown ==
  \A x \in Render :
    \A k \in x[3].displayedKeys :
      LET c == At(x[2], k)
          t == TargetSecIn(x[3], k)
      IN  HasRow(x[3], k) <=> (c # 0 \/ t.n # c * t.d)

\* C23 amended: a displayed filter has a row exactly when its captured time,
\* or its deficit or surplus against its target, rounds to at least 0.01 h,
\* and it has one row then.
C23_RoundedNonzeroShown ==
  \A x \in Render :
    \A k \in x[3].displayedKeys :
      LET c == At(x[2], k)
          t == TargetSecIn(x[3], k)
      IN  /\ HasRow(x[3], k)
               <=> (RoundsToHundredth(c, 1) \/ RoundsToHundredth(t.n - c * t.d, t.d))
          /\ Cardinality({r \in x[3].rows : r.filter = k}) <= 1

C23_Witness ==
  \E x \in Render :
    \E k1, k2 \in x[3].displayedKeys :
      /\ HasRow(x[3], k1)
      /\ At(x[2], k1) = 20
      /\ ~HasRow(x[3], k2)
      /\ TargetSecIn(x[3], k2).n > 0
      /\ At(x[2], k2) = 0

(***************************************************************************)
(* The rescan mark, checked under SpecScan.                                *)
(***************************************************************************)
\* a scan starts in this step
ScanStarts == scanPc = "idle" /\ scanPc' = "reading"

\* C30: every step that changes the backend path or the recurse flag leaves
\* needsRescan true, also while a scan is running; every step that starts a
\* scan leaves it false; needsRescan becomes true in no step that touches
\* the scan, and becomes false only in a step that starts a scan; and an
\* onScan with a blank path sets the status text and leaves needsRescan,
\* scanning and the frame collection as they were.
C30_NeedsRescanTracksChanges ==
  [][ /\ (backendPath' # backendPath \/ recurse' # recurse) => needsRescan'
      /\ ScanStarts => ~needsRescan'
      /\ (needsRescan' /\ ~needsRescan)
           => UNCHANGED <<scanPc, scanning, frames, live, scanned, status>>
      /\ (needsRescan /\ ~needsRescan') => ScanStarts
      /\ (scanPc = "idle" /\ Trim(backendPath) = <<>> /\ status' # status)
           => /\ status' = "Enter a valid backend path"
              /\ UNCHANGED <<needsRescan, scanning, frames, scanPc>> ]_vars

C30_Witness ==
  /\ scanPc = "reading"
  /\ Len(scanned) = 1
  /\ needsRescan
  /\ ~recurse
  /\ status = "Scanning"

(***************************************************************************)
(* Properties of scanFrames, checked under SpecStream.                     *)
(***************************************************************************)
\* the part of the response that has been read
Consumed == SubSeq(response, 1, Len(response) - Len(wire))

\* the lines of a text that end with a newline
TerminatedLines(text) ==
  LET parts == SplitOn(text, Newline) IN SubSeq(parts, 1, Len(parts) - 1)

MsgOf(line) == JsonParse(Trim(line))

\* the lines before the first done message
BeforeDone(ls) ==
  LET D == {i \in 1..Len(ls) : MsgOf(ls[i]) = "d"}
  IN  IF D = {} THEN ls
      ELSE SubSeq(ls, 1, (CHOOSE i \in D : \A j \in D : i <= j) - 1)

HasDone(text) == \E i \in 1..Len(TerminatedLines(text)) :
                   MsgOf(TerminatedLines(text)[i]) = "d"

FrameMsgs(text) ==
  SelectSeq(BeforeDone(TerminatedLines(text)), LAMBDA l : MsgOf(l) \in FrameIds)

ProgressMsgs(text) ==
  SelectSeq(BeforeDone(TerminatedLines(text)), LAMBDA l : MsgOf(l) = "p")

\* the frames of the frame messages on terminated lines before the first
\* done message, in the order of the text
ExpectedFrames(text) ==
  [i \in 1..Len(FrameMsgs(text)) |-> WireFrame(MsgOf(FrameMsgs(text)[i]))]

OnFrameCalls == SelectSeq(calls, LAMBDA c : c[1] = "onFrame")

OnProgressCalls == SelectSeq(calls, LAMBDA c : c[1] = "onProgress")

Failed == sfPc = "returned" /\ sfReturn.info = "Scan failed"

Returned == sfPc = "returned" /\ sfReturn.info # "Scan failed"

\* C24: when a read fails after k frame messages have been parsed,
\* scanFrames returns (its promise resolves) and the frames it returns are
\* the k frames received before the failure.
C24_FailureReturnsReceived ==
  Failed => /\ sfReturn.frames = sfFrames
            /\ sfReturn.frames = ExpectedFrames(Consumed)

\* C25: a line that does not parse is skipped and the scan goes on: while
\* scanFrames reads, its frames are the frames of all well-formed frame
\* messages on the lines read so far (before a done message), those after a
\* malformed line as well as those before it, each one handed to onFrame,
\* and scanFrames returns only at a done message, at the end of the stream
\* or at a failure.
C25_MalformedLineSkipped ==
  /\ sfPc = "reading"
       => /\ sfFrames = ExpectedFrames(Consumed)
          /\ [i \in 1..Len(OnFrameCalls) |-> OnFrameCalls[i][2]] = sfFrames
          /\ ~HasDone(Consumed)
  /\ Returned => (HasDone(Consumed) \/ wire = <<>>)

C25_Witness ==
  /\ sfPc = "reading"
  /\ Consumed = <<"{","a","}",Newline, "{","a",Newline, "{","b","}",Newline>>
  /\ sfFrames = <<WireFrame("a"), WireFrame("b")>>

\* C26: when scanFrames returns without a failure, the frames it returns are
\* the frame messages on the newline-terminated lines before the first done
\* message, each once and in the order of the stream; onFrame has been
\* called with each of them in that order, each time before the frame was
\* appended; onProgress has been called once for each progress and each
\* frame message before the done message, and nothing after the first done
\* message has had any effect.
C26_FramesBeforeDone ==
  Returned
    => /\ sfReturn.frames = ExpectedFrames(response)
       /\ [i \in 1..Len(OnFrameCalls) |-> OnFrameCalls[i][2]] = sfReturn.frames
       /\ \A i \in 1..Len(OnFrameCalls) : OnFrameCalls[i][3] = i - 1
       /\ Len(OnProgressCalls) = Len(ProgressMsgs(response)) + Len(FrameMsgs(response))
       /\ (sfReturn.info = "Scanned files") = HasDone(response)

C26_Witness ==
  /\ Returned
  /\ response = <<"{","a","}",Newline, "{","d","}",Newline, "{","b","}",Newline,
                  "{","b","}">>
  /\ sfReturn.frames = <<WireFrame("a")>>
  /\ Len(calls) = 2

\* C28: what scanFrames has done and what it returns depend on the text
\* read, not on the reads that delivered it: at every moment the frames, the
\* calls and the buffer are those of one pass over the whole text read so
\* far, and the value returned is that of one pass over the whole response.
C28_ChunkingInvariant ==
  /\ sfPc = "reading"
       => LET whole == Drain(Consumed, <<>>, <<>>)
          IN  /\ sfFrames = whole.frames
              /\ calls = whole.calls
              /\ buf = whole.buf
  /\ Returned
       => LET whole == Drain(response, <<>>, <<>>)
          IN  /\ sfReturn.frames = whole.frames
              /\ calls = whole.calls
              /\ sfReturn.info = IF whole.done THEN "Scanned files"
                                 ELSE "Scanned frames"

\* a frame line longer than a read can deliver, so split over two reads
C28_Witness ==
  /\ Returned
  /\ Len(response) >= 5
  /\ SubSeq(response, 1, 5) = <<" ","{","a","}",Newline>>
  /\ MaxChunk < 5
  /\ Len(sfReturn.frames) >= 1
  /\ sfReturn.frames[1] = WireFrame("a")
  /\ Len(OnFrameCalls) = Len(sfReturn.frames)

(***************************************************************************)
(* Properties of handleValidate, checked under SpecValidate.               *)
(***************************************************************************)
\* C29: when handleValidate has finished and the last message of the stream
\* was of type error (and no failure of the network followed it), the error
\* state is that message and no validation results are stored; and whenever
\* handleValidate has finished, isLoading is false.
C29_ErrorMessageReported ==
  /\ (valPc = "idle" /\ valLast = "error" /\ error \notin FailureTexts)
       => /\ error \in ServerErrors
          /\ validationResults = "null"
  /\ valPc = "idle" => isLoading = FALSE

====
